---------------------------- MODULE Spec2Model ----------------------------
(***************************************************************************)
(* Model of src/main.cpp: the hand-written fork-join counting routine      *)
(* custom_parallel_count_if and the part of main that sweeps the worker    *)
(* counts K and selects the fastest one.                                   *)
(*                                                                         *)
(* Four specifications share the variables below.                          *)
(*   SpecEngine  one invocation of custom_parallel_count_if on inputs      *)
(*               drawn from bounded sets, with the main thread and the     *)
(*               std::async tasks interleaved step by step.                *)
(*   SpecEngineFair  SpecEngine with the calling thread and every task     *)
(*               scheduled fairly.                                         *)
(*   SpecKValues the derivation of k_values alone, applied to a wide range  *)
(*               of hardware concurrency readings.                         *)
(*   Spec        main(): Phase A, Phase B, the derivation of k_values,     *)
(*               the Phase C sweep and the final report.  A call of        *)
(*               custom_parallel_count_if is one step of main (the call    *)
(*               is synchronous), computed by the operator of that name.   *)
(* Elapsed times are abstract ticks 1..MaxT; element values are            *)
(* 1..MaxVal; sizes are scaled down to a few elements.                     *)
(***************************************************************************)
EXTENDS Integers, Sequences, FiniteSets

\* ------------------------------------------------------------- bounds
\* Largest dataset length of an engine invocation.
MaxN == 3
\* Largest worker count of an engine invocation (exceeds MaxN on purpose).
MaxK == 5
\* Elements are drawn from 1..MaxVal (the source draws from 1..10000).
MaxVal == 2
\* Elapsed times are drawn from 1..MaxT.
MaxT == 2
\* Largest hardware concurrency reading of a whole run of main.
MaxH == 3
\* Largest hardware concurrency reading the derivation of k_values is run on.
MaxHDerive == 70

VARIABLES
    \* ---- custom_parallel_count_if (one invocation)
    epc,            \* position of the calling thread inside the function
    data,           \* const std::vector<int>& data
    num_threads,    \* int num_threads
    chunk_size,     \* size_t chunk_size
    i,              \* loop variable of the spawning loop
    futures,        \* std::vector<std::future<long long>>, with each task's state
    got,            \* number of futures the joining loop has consumed
    total_count,    \* long long total_count
    ret,            \* the returned value
    \* ---- main
    pc,             \* position of main
    hardware_threads,
    size_idx,       \* position in data_sizes during Phase A
    large_data,     \* std::vector<int> large_data
    count_result,   \* long long count_result
    k_values,       \* std::vector<int> k_values
    k_idx,          \* position of the range-for over k_values
    best_time,
    best_k,
    last_count,
    records,        \* the rows printed by the sweep: K, time, count
    ratio_divisor,  \* the divisor of the final ratio, once computed
    \* ---- both
    divisors        \* every divisor a division has been evaluated with

engine_vars == <<epc, data, num_threads, chunk_size, i, futures, got,
                 total_count, ret>>
main_vars == <<pc, hardware_threads, size_idx, large_data,
               count_result, k_values, k_idx, best_time, best_k, last_count,
               records, ratio_divisor>>
vars == <<engine_vars, main_vars, divisors>>

\* ------------------------------------------------------------ helpers
Range(s) == {s[x] : x \in DOMAIN s}

MinOf(a, b) == IF a < b THEN a ELSE b

\* bool is_even(int n)
is_even(n) == n % 2 = 0

\* std::vector<int> of the given size with elements in the generator's range
Vectors(size) == [1..size -> 1..MaxVal]

\* std::count_if(first, last, is_even), the sequential library routine
RECURSIVE count_if(_)
count_if(d) ==
    IF d = <<>> THEN 0
    ELSE (IF is_even(Head(d)) THEN 1 ELSE 0) + count_if(Tail(d))

\* chunk_size = (data_size + num_threads - 1) / num_threads, num_threads # 0
ChunkSizeFloor(data_size, k) == data_size \div k
ChunkSizePlusOne(data_size, k) == data_size \div k + 1
ChunkSize(data_size, k) == (data_size + k - 1) \div k

\* start_idx = i * chunk_size
StartIdxGap(w, c) == w * (c + 1)
StartIdx(w, c) == w * c

\* end_idx = std::min(start_idx + chunk_size, data_size)
EndIdxOverlap(start, c, data_size) == MinOf(start + c + 1, data_size)
EndIdx(start, c, data_size) == MinOf(start + c, data_size)

\* if (start_idx >= end_idx) continue;
ChunkSkippedStrict(start, end) == start > end
ChunkSkipped(start, end) == start >= end

\* The body of one task: the count over data[start_idx .. end_idx-1]
\* (C++ indices are 0-based, TLA+ sequences 1-based).
RECURSIVE LocalCount(_, _, _)
LocalCount(d, start, end) ==
    IF start >= end THEN 0
    ELSE (IF is_even(d[start + 1]) THEN 1 ELSE 0) + LocalCount(d, start + 1, end)

\* The value custom_parallel_count_if(data, num_threads) returns, num_threads >= 1.
RECURSIVE SumChunks(_, _, _, _)
SumChunks(d, c, w, k) ==
    IF w >= k THEN 0
    ELSE LET start == StartIdx(w, c)
             end == EndIdx(start, c, Len(d))
         IN (IF ChunkSkipped(start, end) THEN 0 ELSE LocalCount(d, start, end))
            + SumChunks(d, c, w + 1, k)

\* With num_threads = 0 and a division that does not trap the spawning loop
\* runs no iteration, whatever chunk_size came out: the total stays 0.
custom_parallel_count_if(d, k) ==
    IF Len(d) = 0 THEN 0
    ELSE IF k = 0 THEN 0
    ELSE SumChunks(d, ChunkSize(Len(d), k), 0, k)

\* ------------------------------------------- custom_parallel_count_if
\* f.get() returns once the task behind the future has finished.
FutureReadyNoWait(t) == TRUE
FutureReady(t) == futures[t].ready

\* What the early return for an empty vector hands back.
EmptyResultSentinel == 0 - 1
EmptyResult == 0

\* Entry up to the spawning loop.  An empty vector returns at once.  With
\* num_threads = 0 the chunk-size division has a zero divisor: undefined
\* behaviour, modelled as either a trap or any chunk size.
Enter ==
    /\ epc = "entry"
    /\ IF Len(data) = 0
       THEN /\ epc' = "returned"
            /\ ret' = EmptyResult
            /\ UNCHANGED <<chunk_size, total_count, divisors>>
       ELSE /\ divisors' = divisors \cup {num_threads}
            /\ total_count' = 0
            /\ ret' = ret
            /\ IF num_threads = 0
               THEN /\ epc' \in {"crashed", "loop"}
                    /\ chunk_size' \in 0..Len(data)
               ELSE /\ epc' = "loop"
                    /\ chunk_size' = ChunkSize(Len(data), num_threads)
    /\ UNCHANGED <<data, num_threads, i, futures, got, main_vars>>

\* One iteration of the spawning loop whose chunk is empty: continue.
LoopSkip ==
    /\ epc = "loop"
    /\ i < num_threads
    /\ LET start == StartIdx(i, chunk_size)
           end == EndIdx(start, chunk_size, Len(data))
       IN ChunkSkipped(start, end)
    /\ i' = i + 1
    /\ UNCHANGED <<epc, data, num_threads, chunk_size, futures, got,
                   total_count, ret, main_vars, divisors>>

\* One iteration that launches a task on [start_idx, end_idx).
\* std::async(std::launch::async, ...) is taken to start its thread; a failure
\* to create one (std::system_error) is not modelled.
LoopSpawn ==
    /\ epc = "loop"
    /\ i < num_threads
    /\ LET start == StartIdx(i, chunk_size)
           end == EndIdx(start, chunk_size, Len(data))
       IN /\ ~ChunkSkipped(start, end)
          /\ futures' = Append(futures,
                 [start_idx |-> start, end_idx |-> end, j |-> start,
                  local_count |-> 0, ready |-> FALSE, taken |-> 0])
    /\ i' = i + 1
    /\ UNCHANGED <<epc, data, num_threads, chunk_size, got, total_count, ret,
                   main_vars, divisors>>

\* The spawning loop ends.
LoopExit ==
    /\ epc = "loop"
    /\ i >= num_threads
    /\ epc' = "join"
    /\ UNCHANGED <<data, num_threads, chunk_size, i, futures, got,
                   total_count, ret, main_vars, divisors>>

\* Task t examines one element: it reads data[j] and writes only its own j
\* and local_count (the lambda captures data by reference to const and
\* start_idx, end_idx by value; local_count and j are its locals).
TaskStepSharedCount(t) ==
    /\ ~futures[t].ready
    /\ futures[t].j < futures[t].end_idx
    /\ futures' = [futures EXCEPT
           ![t].j = @ + 1,
           ![1].local_count = @ + (IF is_even(data[futures[t].j + 1]) THEN 1 ELSE 0)]
    /\ UNCHANGED <<epc, data, num_threads, chunk_size, i, got, total_count,
                   ret, main_vars, divisors>>
TaskStepMarks(t) ==
    /\ ~futures[t].ready
    /\ futures[t].j < futures[t].end_idx
    /\ futures' = [futures EXCEPT
           ![t].local_count = @ + (IF is_even(data[futures[t].j + 1]) THEN 1 ELSE 0),
           ![t].j = @ + 1]
    /\ data' = [data EXCEPT ![futures[t].j + 1] = 0]
    /\ UNCHANGED <<epc, num_threads, chunk_size, i, got, total_count,
                   ret, main_vars, divisors>>
TaskStep(t) ==
    /\ ~futures[t].ready
    /\ futures[t].j < futures[t].end_idx
    /\ futures' = [futures EXCEPT
           ![t].local_count = @ + (IF is_even(data[futures[t].j + 1]) THEN 1 ELSE 0),
           ![t].j = @ + 1]
    /\ UNCHANGED <<epc, data, num_threads, chunk_size, i, got, total_count,
                   ret, main_vars, divisors>>

\* Task t leaves its loop and returns local_count: the future becomes ready.
TaskReturn(t) ==
    /\ ~futures[t].ready
    /\ futures[t].j >= futures[t].end_idx
    /\ futures' = [futures EXCEPT ![t].ready = TRUE]
    /\ UNCHANGED <<epc, data, num_threads, chunk_size, i, got, total_count,
                   ret, main_vars, divisors>>

\* for (auto& f : futures): the range-for has visited every future
JoinDoneEarly == got >= Len(futures) - 1
JoinDone == got >= Len(futures)

\* total_count += f.get() for the next future, in the order of the vector.
\* taken counts the get() calls made on the future.
Join ==
    /\ epc = "join"
    /\ ~JoinDone
    /\ FutureReady(got + 1)
    /\ total_count' = total_count + futures[got + 1].local_count
    /\ futures' = [futures EXCEPT ![got + 1].taken = @ + 1]
    /\ got' = got + 1
    /\ UNCHANGED <<epc, data, num_threads, chunk_size, i, ret,
                   main_vars, divisors>>

\* return total_count
Return ==
    /\ epc = "join"
    /\ JoinDone
    /\ ret' = total_count
    /\ epc' = "returned"
    /\ UNCHANGED <<data, num_threads, chunk_size, i, futures, got,
                   total_count, main_vars, divisors>>

\* main is not running in SpecEngine
MainIdle ==
    /\ pc = "none"
    /\ hardware_threads = 0
    /\ size_idx = 0
    /\ large_data = <<>>
    /\ count_result = 0
    /\ k_values = <<>>
    /\ k_idx = 0
    /\ best_time = 0
    /\ best_k = 0
    /\ last_count = 0
    /\ records = <<>>
    /\ ratio_divisor = -1

\* The worked example: ten consecutive integers from 2, three workers.
ScenarioData == <<2, 3, 4, 5, 6, 7, 8, 9, 10, 11>>

\* The inputs of an invocation: every vector of up to MaxN elements with
\* every worker count up to MaxK, and the worked example.
EngineInputs ==
    {<<d, k>> : d \in UNION {Vectors(n) : n \in 0..MaxN}, k \in 0..MaxK}
        \cup {<<ScenarioData, 3>>}

InitEngine ==
    /\ epc = "entry"
    /\ \E inp \in EngineInputs : data = inp[1] /\ num_threads = inp[2]
    /\ chunk_size = 0
    /\ i = 0
    /\ futures = <<>>
    /\ got = 0
    /\ total_count = 0
    /\ ret = 0
    /\ divisors = {}
    /\ MainIdle

NextEngine ==
    \/ Enter
    \/ LoopSkip
    \/ LoopSpawn
    \/ LoopExit
    \/ \E t \in DOMAIN futures : TaskStep(t)
    \/ \E t \in DOMAIN futures : TaskReturn(t)
    \/ Join
    \/ Return

SpecEngine == InitEngine /\ [][NextEngine]_vars

\* The steps of the calling thread, and those of the task behind future t.
CallerStep == Enter \/ LoopSkip \/ LoopSpawn \/ LoopExit \/ Join \/ Return

TaskRun(t) == t \in DOMAIN futures /\ (TaskStep(t) \/ TaskReturn(t))

\* Every thread that can take a step eventually takes one: the calling
\* thread and each std::launch::async task run on threads of their own.
SpecEngineFair ==
    /\ SpecEngine
    /\ WF_vars(CallerStep)
    /\ \A t \in 1..MaxK : WF_vars(TaskRun(t))

\* ------------------------------------------------------------- main
\* data_sizes = {10^5, 10^6, 10^7, 10^8}, scaled down to 1, 2, 3, 4 elements
data_sizes == <<1, 2, 3, 4>>

\* size_t large_data_size = data_sizes.back()
large_data_size == data_sizes[Len(data_sizes)]

\* std::numeric_limits<double>::max(): above every elapsed time
DBL_MAX == MaxT + 1

\* The values pushed onto k_values, in the order of the push_back calls.
\* hardware_threads is unsigned int and k_values holds int: for the readings
\* modelled every value is far below 2^31, so no conversion changes it.
KPushesWithout32(H) ==
    <<1>>
    \o (IF H > 1 THEN <<H \div 2>> ELSE <<>>)
    \o <<H>>
    \o <<H + (IF H > 1 THEN H \div 2 ELSE 1)>>
    \o <<H * 2>>
    \o (IF H > 2 THEN <<H * 3>> ELSE <<>>)
KPushesTripleFromTwo(H) ==
    <<1>>
    \o (IF H > 1 THEN <<H \div 2>> ELSE <<>>)
    \o <<H>>
    \o <<H + (IF H > 1 THEN H \div 2 ELSE 1)>>
    \o <<H * 2>>
    \o (IF H >= 2 THEN <<H * 3>> ELSE <<>>)
    \o <<32>>
KPushes(H) ==
    <<1>>
    \o (IF H > 1 THEN <<H \div 2>> ELSE <<>>)
    \o <<H>>
    \o <<H + (IF H > 1 THEN H \div 2 ELSE 1)>>
    \o <<H * 2>>
    \o (IF H > 2 THEN <<H * 3>> ELSE <<>>)
    \o <<32>>

\* The divisors the derivation of k_values evaluates: hardware_threads / 2,
\* and only when hardware_threads > 1.
KDivisors(H) == IF H > 1 THEN {2} ELSE {}

\* std::sort(k_values.begin(), k_values.end()): ascending, duplicates kept
RECURSIVE InsertSorted(_, _)
InsertSorted(x, s) ==
    IF s = <<>> THEN <<x>>
    ELSE IF x <= Head(s) THEN <<x>> \o s
    ELSE <<Head(s)>> \o InsertSorted(x, Tail(s))

RECURSIVE Sort(_)
Sort(s) == IF s = <<>> THEN <<>> ELSE InsertSorted(Head(s), Sort(Tail(s)))

\* k_values.erase(std::unique(...), k_values.end()): of every run of equal
\* adjacent values only the first is kept
UniqueKeepAll(s) == s
RECURSIVE Unique(_)
Unique(s) ==
    IF Len(s) <= 1 THEN s
    ELSE IF s[1] = s[2] THEN Unique(Tail(s))
    ELSE <<s[1]>> \o Unique(Tail(s))

\* if (duration < best_time)
BeatsBestOrTies(duration, best) == duration <= best
BeatsBestInverted(duration, best) == duration > best
BeatsBest(duration, best) == duration < best

\* Phase A: one pass of the loop over data_sizes.  The fresh random vector
\* dies with the iteration and its count goes to nonlocal, which nothing
\* reads, so the pass leaves only the loop position behind.
PhaseA ==
    /\ pc = "phaseA"
    /\ size_idx <= Len(data_sizes)
    /\ \E d \in Vectors(data_sizes[size_idx]) : count_if(d) \in 0..Len(d)
    /\ size_idx' = size_idx + 1
    /\ UNCHANGED <<pc, hardware_threads, large_data, count_result, k_values,
                   k_idx, best_time, best_k, last_count, records,
                   ratio_divisor, engine_vars, divisors>>

\* The loop over data_sizes ends; large_data is generated.
GenerateLarge ==
    /\ pc = "phaseA"
    /\ size_idx > Len(data_sizes)
    /\ large_data' \in Vectors(large_data_size)
    /\ pc' = "phaseB"
    /\ UNCHANGED <<hardware_threads, size_idx, count_result,
                   k_values, k_idx, best_time, best_k, last_count, records,
                   ratio_divisor, engine_vars, divisors>>

\* Phase B: std::count_if under seq, par, unseq and par_unseq, each assigned
\* to count_result; the four policies compute the same count.
PhaseB ==
    /\ pc = "phaseB"
    /\ count_result' = count_if(large_data)
    /\ pc' = "build_k"
    /\ UNCHANGED <<hardware_threads, size_idx, large_data, k_values,
                   k_idx, best_time, best_k, last_count, records,
                   ratio_divisor, engine_vars, divisors>>

\* The candidate list: the push_back calls, sort, unique/erase; then the
\* declarations of best_time, best_k and last_count.
BuildKValues ==
    /\ pc = "build_k"
    /\ k_values' = Unique(Sort(KPushes(hardware_threads)))
    /\ divisors' = divisors \cup KDivisors(hardware_threads)
    /\ k_idx' = 1
    /\ best_time' = DBL_MAX
    /\ best_k' = -1
    /\ last_count' = -1
    /\ pc' = "sweep"
    /\ UNCHANGED <<hardware_threads, size_idx, large_data,
                   count_result, records, ratio_divisor, engine_vars>>

\* if (k == 0) continue;
KIsZeroNever(k) == FALSE
KIsZero(k) == k = 0

\* The iteration of the sweep that is skipped.
SweepSkip ==
    /\ pc = "sweep"
    /\ k_idx <= Len(k_values)
    /\ KIsZero(k_values[k_idx])
    /\ k_idx' = k_idx + 1
    /\ UNCHANGED <<pc, hardware_threads, size_idx, large_data,
                   count_result, k_values, best_time, best_k, last_count,
                   records, ratio_divisor, engine_vars, divisors>>

\* One timed run of custom_parallel_count_if(large_data, k), its printed row
\* and the update of the running best.  large_data is not empty, so the call
\* evaluates the chunk-size division with divisor k.
SweepRun ==
    /\ pc = "sweep"
    /\ k_idx <= Len(k_values)
    /\ ~KIsZero(k_values[k_idx])
    /\ last_count' = custom_parallel_count_if(large_data, k_values[k_idx])
    /\ divisors' = divisors \cup {k_values[k_idx]}
    /\ \E duration \in 1..MaxT :
           /\ records' = Append(records,
                  [k |-> k_values[k_idx], time |-> duration,
                   count |-> last_count'])
           /\ IF BeatsBest(duration, best_time)
              THEN best_time' = duration /\ best_k' = k_values[k_idx]
              ELSE UNCHANGED <<best_time, best_k>>
    /\ k_idx' = k_idx + 1
    /\ UNCHANGED <<pc, hardware_threads, size_idx, large_data,
                   count_result, k_values, ratio_divisor, engine_vars>>

\* After the loop: best K, best time and the ratio
\* static_cast<double>(best_k) / hardware_threads are printed.
Report ==
    /\ pc = "sweep"
    /\ k_idx > Len(k_values)
    /\ ratio_divisor' = hardware_threads
    /\ divisors' = divisors \cup {hardware_threads}
    /\ pc' = "done"
    /\ UNCHANGED <<hardware_threads, size_idx, large_data,
                   count_result, k_values, k_idx, best_time, best_k,
                   last_count, records, engine_vars>>

\* custom_parallel_count_if is not being stepped in Spec
EngineIdle ==
    /\ epc = "none"
    /\ data = <<>>
    /\ num_threads = 0
    /\ chunk_size = 0
    /\ i = 0
    /\ futures = <<>>
    /\ got = 0
    /\ total_count = 0
    /\ ret = 0

Init ==
    /\ pc = "phaseA"
    /\ hardware_threads \in 0..MaxH
    /\ size_idx = 1
    /\ large_data = <<>>
    /\ count_result = 0
    /\ k_values = <<>>
    /\ k_idx = 1
    /\ best_time = DBL_MAX
    /\ best_k = -1
    /\ last_count = -1
    /\ records = <<>>
    /\ ratio_divisor = -1
    /\ divisors = {}
    /\ EngineIdle

Next ==
    \/ PhaseA
    \/ GenerateLarge
    \/ PhaseB
    \/ BuildKValues
    \/ SweepSkip
    \/ SweepRun
    \/ Report

Spec == Init /\ [][Next]_vars

\* The derivation of k_values on its own: main stands before the push_back
\* calls, with any hardware concurrency up to MaxHDerive.
InitKValues ==
    /\ pc = "build_k"
    /\ hardware_threads \in 0..MaxHDerive
    /\ size_idx = Len(data_sizes) + 1
    /\ large_data = <<>>
    /\ count_result = 0
    /\ k_values = <<>>
    /\ k_idx = 1
    /\ best_time = DBL_MAX
    /\ best_k = -1
    /\ last_count = -1
    /\ records = <<>>
    /\ ratio_divisor = -1
    /\ divisors = {}
    /\ EngineIdle

NextKValues == BuildKValues

SpecKValues == InitKValues /\ [][NextKValues]_vars

\* ----------------------------------------------- properties, SpecEngine
\* The index ranges of the chunks a task was spawned for.
ChunkIndices(t) == futures[t].start_idx .. (futures[t].end_idx - 1)

SpawningDone == epc \in {"join", "returned"}

AllTasksFinished == \A t \in DOMAIN futures : futures[t].ready

\* C1: for every dataset (the empty one too) and every worker count K >= 1
\* the value returned equals the sequential count of the even elements.
C1_Exactness ==
    (epc = "returned" /\ num_threads >= 1) => ret = count_if(data)

C1_Witness ==
    /\ epc = "returned"
    /\ num_threads = 2
    /\ Len(data) = 3
    /\ Len(futures) = 2
    /\ ret = 3

\* C2: for every size n and every K >= 1 the ranges [start_idx, end_idx) of
\* the spawned tasks are pairwise disjoint, and once the spawning loop has
\* ended their union is exactly 0 .. n-1.
C2_ChunksPartition ==
    num_threads >= 1 =>
        /\ \A t, u \in DOMAIN futures :
               t # u => ChunkIndices(t) \cap ChunkIndices(u) = {}
        /\ SpawningDone =>
               UNION {ChunkIndices(t) : t \in DOMAIN futures} = 0 .. (Len(data) - 1)

C2_Witness ==
    /\ SpawningDone
    /\ num_threads = 2
    /\ Len(data) = 3
    /\ Len(futures) = 2
    /\ ChunkIndices(1) = {0, 1}
    /\ ChunkIndices(2) = {2}

C4_EmptyDataset ==
    (Len(data) = 0 /\ num_threads >= 1) =>
        /\ futures = <<>>
        /\ epc \in {"entry", "returned"}
        /\ epc = "returned" => ret = 0

C4_Witness ==
    /\ Len(data) = 0
    /\ num_threads = 4
    /\ epc = "returned"
    /\ ret = 0

\* C6 as stated: called with a worker count below 1 on a non-empty dataset
\* the function reports an input-validation error and never divides by zero.
C6_WorkerCountGuard ==
    (num_threads < 1 /\ Len(data) > 0 /\ epc # "entry") =>
        (epc = "invalid_argument" /\ 0 \notin divisors)

\* The worker indices below upto whose chunk holds at least one element.
NonEmptyWorkers(upto) ==
    {w \in 0..(upto - 1) : w * chunk_size < Len(data)}

\* The spawning loop is running or over, on a non-empty dataset with K >= 1.
Spawning ==
    /\ num_threads >= 1
    /\ Len(data) > 0
    /\ epc \in {"loop", "join", "returned"}

\* C13: for every size n and K >= 1 exactly one task is spawned for each
\* worker index whose chunk is non-empty and none for an index whose chunk is
\* empty; every spawned task owns at least one element and there are never
\* more than K tasks.
C13_OneTaskPerNonEmptyChunk ==
    Spawning =>
        /\ Len(futures) = Cardinality(NonEmptyWorkers(i))
        /\ \A w \in NonEmptyWorkers(i) :
               Cardinality({t \in DOMAIN futures :
                   futures[t].start_idx = w * chunk_size}) = 1
        /\ \A t \in DOMAIN futures : futures[t].start_idx < futures[t].end_idx
        /\ Len(futures) <= num_threads

C13_Witness ==
    /\ epc = "join"
    /\ num_threads = 5
    /\ Len(data) = 3
    /\ chunk_size = 1
    /\ i = 5
    /\ Len(futures) = 3

\* C14 as stated: for a non-empty dataset of size n and any K >= n fewer
\* tasks than K are spawned.
C14_FewerTasksThanK ==
    (SpawningDone /\ Len(data) > 0 /\ num_threads >= Len(data)) =>
        Len(futures) < num_threads

\* C14 amended: for a non-empty dataset of size n and K >= n exactly n tasks
\* are spawned, one per element: fewer than K when K > n, K when K = n.
C14_OneTaskPerElement ==
    (SpawningDone /\ Len(data) > 0 /\ num_threads >= Len(data)) =>
        /\ Len(futures) = Len(data)
        /\ \A t \in DOMAIN futures :
               futures[t].end_idx = futures[t].start_idx + 1
        /\ num_threads > Len(data) => Len(futures) < num_threads

C14_Witness ==
    /\ SpawningDone
    /\ Len(data) = 2
    /\ num_threads = 5
    /\ Len(futures) = 2

\* C15: for n > 0 and K >= 1 chunk_size is the ceiling of n / K, the task of
\* worker index w has the range [w * c, min(w * c + c, n)), and every spawned
\* chunk but the last holds exactly c elements.  For the ten integers from 2
\* and K = 3 the chunks are [0,4), [4,8), [8,10), the partial counts 2, 2, 1
\* and the total 5.
C15_CeilingChunks ==
    /\ Spawning =>
           /\ chunk_size * num_threads >= Len(data)
           /\ (chunk_size - 1) * num_threads < Len(data)
           /\ \A t \in DOMAIN futures :
                  /\ futures[t].start_idx = (t - 1) * chunk_size
                  /\ futures[t].end_idx =
                         (IF t * chunk_size < Len(data)
                          THEN t * chunk_size ELSE Len(data))
                  /\ t < Len(futures) =>
                         futures[t].end_idx - futures[t].start_idx = chunk_size
    /\ (data = ScenarioData /\ num_threads = 3 /\ epc = "returned") =>
           /\ [t \in DOMAIN futures |->
                  <<futures[t].start_idx, futures[t].end_idx>>]
                  = <<(<<0, 4>>), (<<4, 8>>), (<<8, 10>>)>>
           /\ [t \in DOMAIN futures |-> futures[t].local_count] = <<2, 2, 1>>
           /\ ret = 5

C15_Witness ==
    /\ data = ScenarioData
    /\ num_threads = 3
    /\ chunk_size = 4
    /\ epc = "returned"
    /\ ret = 5

\* C16: the tasks of one invocation share no mutable state.  A step that
\* changes a task's j or local_count is a step of that task alone: the task
\* has not yet handed over its result, and the step leaves total_count and
\* every other task's state as they were.  The returned total is the same
\* function of the inputs in every interleaving.
C16_NoSharedMutableState ==
    /\ [](epc = "returned" /\ num_threads >= 1
              => ret = custom_parallel_count_if(data, num_threads))
    /\ [][\A t \in DOMAIN futures :
              (\/ futures'[t].local_count # futures[t].local_count
               \/ futures'[t].j # futures[t].j)
                  => /\ ~futures[t].ready
                     /\ total_count' = total_count
                     /\ \A u \in DOMAIN futures \ {t} : futures'[u] = futures[u]
         ]_vars

C16_Witness ==
    /\ epc = "join"
    /\ Len(futures) = 2
    /\ ~futures[1].ready
    /\ ~futures[2].ready
    /\ futures[1].local_count = 2
    /\ futures[2].local_count = 1

\* C17: with the calling thread and every task scheduled fairly an invocation
\* with K >= 1 returns, and when it has returned every task it spawned has
\* finished.
C17_TerminatesAfterAllTasks ==
    /\ (epc = "entry" /\ num_threads >= 1) ~> (epc = "returned")
    /\ [](epc = "returned" => AllTasksFinished)

C17_Witness ==
    /\ epc = "returned"
    /\ num_threads = 3
    /\ Len(futures) = 3
    /\ AllTasksFinished
    /\ ret = 3

\* The sum of the partial counts of the first n futures.
RECURSIVE SumPartials(_)
SumPartials(n) ==
    IF n = 0 THEN 0 ELSE futures[n].local_count + SumPartials(n - 1)

\* C18: the partial count of each spawned task is added to total_count
\* exactly once: get() has been called once on each of the first got futures
\* and on no other, total_count is the sum of their counts, and at the return
\* every future has been consumed.
C18_EachPartialOnce ==
    (num_threads >= 1 /\ SpawningDone) =>
        /\ \A t \in DOMAIN futures :
               futures[t].taken = (IF t <= got THEN 1 ELSE 0)
        /\ Len(data) > 0 => total_count = SumPartials(got)
        /\ epc = "returned" => got = Len(futures)

C18_Witness ==
    /\ epc = "returned"
    /\ Len(futures) = 3
    /\ got = 3
    /\ \A t \in DOMAIN futures : futures[t].taken = 1 /\ futures[t].local_count = 1
    /\ ret = 3

\* C19: the input dataset is never modified: no step of an invocation changes
\* data, and once large_data is generated no step of Phase B or of the
\* Phase C sweep changes it.
C19_DatasetUnchanged ==
    [][/\ data' = data
       /\ pc \in {"phaseB", "build_k", "sweep"} => large_data' = large_data
      ]_vars

C19_Witness ==
    /\ epc = "returned"
    /\ data = <<2, 1, 2>>
    /\ num_threads = 2
    /\ ret = 2

\* ------------------------------------------ properties, Spec, SpecKValues
SweepFinished == pc = "done" \/ (pc = "sweep" /\ k_idx > Len(k_values))

KValuesBuilt == pc \in {"sweep", "done"}

\* The smallest elapsed time among the printed rows, and the first row with it.
MinTime ==
    CHOOSE t \in {records[x].time : x \in DOMAIN records} :
        \A y \in DOMAIN records : t <= records[y].time

FirstMinRow ==
    CHOOSE x \in DOMAIN records :
        /\ records[x].time = MinTime
        /\ \A y \in 1..(x - 1) : records[y].time # MinTime

\* C5: for a fixed dataset the returned count is the same for all worker
\* counts K1, K2 >= 1, so every row of the Phase C sweep carries one count.
C5_KInvariance ==
    /\ (pc = "sweep" /\ k_idx = 1) =>
           \A K1, K2 \in 1..MaxK :
               custom_parallel_count_if(large_data, K1)
                   = custom_parallel_count_if(large_data, K2)
    /\ \A a, b \in DOMAIN records : records[a].count = records[b].count

C5_Witness ==
    /\ pc = "done"
    /\ Len(records) = 6
    /\ records[1].k = 1
    /\ records[3].k = 4
    /\ records[6].k = 32
    /\ records[1].count = 3
    /\ records[6].count = 3

\* C7: after the sweep best_time is the smallest elapsed time of all rows and
\* best_k the K of the first row, in sweep order, that has it: a later row
\* with an equal time does not replace the running best.
C7_BestIsFirstMinimum ==
    SweepFinished =>
        /\ records # <<>>
        /\ best_time = MinTime
        /\ best_k = records[FirstMinRow].k

C7_Witness ==
    /\ pc = "done"
    /\ Len(records) = 3
    /\ records[1] = [k |-> 1, time |-> 2, count |-> 2]
    /\ records[2] = [k |-> 2, time |-> 1, count |-> 2]
    /\ records[3] = [k |-> 32, time |-> 1, count |-> 2]
    /\ best_k = 2
    /\ best_time = 1

\* C8: with hardware concurrency 0 the derivation of k_values divides by
\* nothing that is zero and the list holds both 1 and 32.
C8_ZeroConcurrencyKValues ==
    (hardware_threads = 0 /\ pc = "sweep" /\ k_idx = 1) =>
        /\ 0 \notin divisors
        /\ {1, 32} \subseteq Range(k_values)

C8_Witness ==
    /\ hardware_threads = 0
    /\ pc = "sweep"
    /\ k_values = <<0, 1, 32>>
    /\ divisors = {}

\* C9 as stated: every division by the hardware concurrency treats a reading
\* of 0 as 1, so the final ratio is never computed with divisor 0.
C9_RatioDivisorGuard ==
    pc = "done" =>
        /\ ratio_divisor = (IF hardware_threads = 0 THEN 1 ELSE hardware_threads)
        /\ 0 \notin divisors

\* C10: for every hardware concurrency k_values is strictly ascending, and
\* sorting and deduplicating it again leaves it unchanged.
C10_KValuesSortedUnique ==
    KValuesBuilt =>
        /\ \A a, b \in DOMAIN k_values : a < b => k_values[a] < k_values[b]
        /\ Unique(Sort(k_values)) = k_values

C10_Witness ==
    /\ pc = "sweep"
    /\ hardware_threads = 16
    /\ k_values = <<1, 8, 16, 24, 32, 48>>

\* C11: for every hardware concurrency H the values of k_values are exactly
\* 1, H/2 (only if H > 1), H, H + H/2 if H > 1 else H + 1, 2H, 3H (only if
\* H > 2) and 32, with integer division, and nothing else.
C11_KValuesSet ==
    KValuesBuilt =>
        LET H == hardware_threads
        IN Range(k_values) =
               {1, H, 2 * H, 32}
                   \cup (IF H > 1 THEN {H \div 2, H + H \div 2} ELSE {H + 1})
                   \cup (IF H > 2 THEN {3 * H} ELSE {})

C11_Witness ==
    /\ pc = "sweep"
    /\ hardware_threads = 5
    /\ k_values = <<1, 2, 5, 7, 10, 15, 32>>

\* C12: for every hardware concurrency, 0 included, every K the sweep passes
\* to custom_parallel_count_if is at least 1, so up to the end of the sweep
\* no division has been evaluated with a zero divisor.
C12_SweepPassesPositiveK ==
    /\ \A x \in DOMAIN records : records[x].k >= 1
    /\ pc # "done" => 0 \notin divisors

C12_Witness ==
    /\ hardware_threads = 0
    /\ k_values = <<0, 1, 32>>
    /\ pc = "sweep"
    /\ k_idx = 4
    /\ Len(records) = 2
    /\ records[1].k = 1
    /\ records[2].k = 32

\* C20: for every hardware concurrency, 0 included, when the sweep has
\* finished best_k is a value of k_values and at least 1: neither the initial
\* -1 nor 0.
C20_BestKIsCandidate ==
    SweepFinished =>
        /\ best_k \in Range(k_values)
        /\ best_k >= 1

C20_Witness ==
    /\ pc = "done"
    /\ hardware_threads = 0
    /\ k_values = <<0, 1, 32>>
    /\ best_k = 32

=============================================================================
